---- MODULE Spec2Model ----
(***************************************************************************)
(* A model of id3_parser.py: the one-time resolution of the HLS manifest   *)
(* to a media playlist, the polling loop of monitor_hls with its set of    *)
(* seen segments, the scan of a segment for ID3 blocks, and the policy     *)
(* that decides which decoded block is printed.                            *)
(*                                                                         *)
(* Python values are represented as follows.  A bytes object is a sequence *)
(* of numbers 0..255.  An m3u8 playlist object, or None, is a record       *)
(* [isNone, segments, playlists].  An optional bandwidth is <<>> (None) or *)
(* <<n>>.  A dict is a function from its keys; the result of               *)
(* decode_id3_with_mutagen is a record [isNone, dict].  A URL that is None *)
(* is the string NoneURL.                                                  *)
(***************************************************************************)
EXTENDS Integers, Sequences, FiniteSets, TLC

VARIABLES
    pc,             \* where the program is: "main", "exit", "poll", "for_seg",
                    \* "for_block", "sleep"; "extract"/"extracted" in SpecExtract
    seen_segments,  \* the module-level set seen_segments
    selected_hls,   \* __main__: the result of get_lowest_bitrate_variant
    hls_url,        \* monitor_hls: its parameter
    playlist,       \* the local `playlist` of the function that runs
    seg_i,          \* monitor_hls: position of the for loop in playlist.segments
    data,           \* check_id3_in_segment: response.content
    id3_blocks,     \* check_id3_in_segment: the extracted blocks
    sizes,          \* the synchsafe size computed for each extracted block
    block_i,        \* check_id3_in_segment: the enumerate index i
    tag,            \* what mutagen's ID3(...) did with the latest block
    decoded,        \* check_id3_in_segment: decoded, for the latest block
    reports,        \* the block indices printed for the segment in hand
    exit_status,    \* the status the process ended with (read when pc = "exit")
    stdout_failure, \* TRUE once "Could not determine HLS variant" is printed
    resolve_calls,  \* history: calls of get_lowest_bitrate_variant
    polled,         \* history: the URLs monitor_hls passed to get_playlist
    checked,        \* history: per URL, the calls of check_id3_in_segment
    failed,         \* history: the URLs whose check ended in the except branch
    attempts        \* history: the checks of the poll in hand, in order

vars == <<pc, seen_segments, selected_hls, hls_url, playlist, seg_i, data,
          id3_blocks, sizes, block_i, tag, decoded, reports, exit_status,
          stdout_failure, resolve_calls, polled, checked, failed, attempts>>

-----------------------------------------------------------------------------
(* Bounds of the model *)

MaxSegs == 2        \* segments listed by one leaf manifest
MaxVariants == 2    \* variants listed by the top-level manifest
MaxFrames == 1      \* frames of one decoded tag
MaxCount == 2       \* the history counters stop counting here
MaxChunks == 3      \* pieces a payload given to the extractor is made of

-----------------------------------------------------------------------------
(* Constants of the program *)

MASTER_HLS_URL == "https://cf98fa7b2ee4450e.mediapackage.us-east-1.amazonaws.com/out/v1/3a9c4275036341c297c9860c3c4c7f2d/index.m3u8"

DefaultBandwidth == 999999999

SizeMask == 127

SizeShift == 7

HeaderLen == 10

TimestampKey == "PRIV:com.elementaltechnologies.timestamp.utc"

Marker == <<73, 68, 51>>

NoneURL == "None"

-----------------------------------------------------------------------------
(* Python helpers *)

MinOf(a, b) == IF a < b THEN a ELSE b

\* a slice that gives nothing when its end lies beyond the object
PySlice_Strict(s, a, b) == IF b > Len(s) THEN <<>> ELSE SubSeq(s, a + 1, b)

\* s[a:b] of a bytes object, 0 <= a
PySlice(s, a, b) == SubSeq(s, a + 1, MinOf(b, Len(s)))

RECURSIVE BitAnd(_, _)
BitAnd(a, b) ==
    IF a = 0 \/ b = 0 THEN 0
    ELSE (a % 2) * (b % 2) + 2 * BitAnd(a \div 2, b \div 2)

RECURSIVE BitOr(_, _)
BitOr(a, b) ==
    IF a = 0 THEN b
    ELSE IF b = 0 THEN a
    ELSE (IF a % 2 = 1 \/ b % 2 = 1 THEN 1 ELSE 0) + 2 * BitOr(a \div 2, b \div 2)

RECURSIVE Pow2(_)
Pow2(n) == IF n = 0 THEN 1 ELSE 2 * Pow2(n - 1)

ShiftLeft(a, n) == a * Pow2(n)

Inc(n) == MinOf(n + 1, MaxCount)

-----------------------------------------------------------------------------
(* What the collaborators can hand to the program *)

SegURLs == {"seg1.ts", "seg2.ts"}

VariantNames == <<"variant1.m3u8", "variant2.m3u8", "variant3.m3u8", "variant4.m3u8">>

\* stream_info.bandwidth: None, 0, two ordinary values, one above the default
Bandwidths == {<<>>, <<0>>, <<200>>, <<500>>, <<1000000000>>}

Segments == {[absolute_uri |-> u] : u \in SegURLs}

SegLists == UNION {[1..n -> Segments] : n \in 0..MaxSegs}

VariantLists ==
    UNION {{[k \in 1..n |-> [absolute_uri |-> VariantNames[k], bandwidth |-> b[k]]] :
                b \in [1..n -> Bandwidths]} : n \in 0..MaxVariants}

NoPlaylist == [isNone |-> TRUE, segments |-> <<>>, playlists |-> <<>>]

Loaded(segs, variants) == [isNone |-> FALSE, segments |-> segs, playlists |-> variants]

\* the manifests the server may hold at MASTER_HLS_URL
MasterManifests ==
    {Loaded(s, v) : s \in {<<>>, <<[absolute_uri |-> "seg1.ts"]>>}, v \in VariantLists}

\* the manifests the server may hold at the media playlist's URL
LeafManifests == {Loaded(s, <<>>) : s \in SegLists}

\* an ID3v2.4 header with the given size bytes
Header(size_bytes) == Marker \o <<4, 0, 0>> \o size_bytes

\* segment bodies: no marker; one block; a transport byte followed by two
\* blocks, the second with one byte of payload; a marker cut off at the end
SegmentPayloads ==
    { <<71, 64, 0>>,
      Header(<<0, 0, 0, 0>>),
      <<71>> \o Header(<<0, 0, 0, 0>>) \o Header(<<0, 0, 0, 1>>) \o <<0>>,
      <<71, 64>> \o Marker }

\* requests.get + raise_for_status: an exception, or a body
Responses ==
    {[ok |-> FALSE, content |-> <<>>]} \cup {[ok |-> TRUE, content |-> c] : c \in SegmentPayloads}

TimestampOwner == "com.elementaltechnologies.timestamp.utc"

OtherOwner == "com.example.other"

FrameSamples ==
    { [FrameID |-> "PRIV", owner |-> TimestampOwner, hasText |-> FALSE],
      [FrameID |-> "PRIV", owner |-> OtherOwner, hasText |-> FALSE],
      [FrameID |-> "TIT2", owner |-> "", hasText |-> TRUE],
      [FrameID |-> "APIC", owner |-> "", hasText |-> FALSE] }

\* what ID3(BytesIO(block)) can do: raise ID3NoHeaderError, raise another
\* exception, or return a tag with some frames
MutagenOutcomes ==
    {[kind |-> "NoHeader", frames |-> <<>>], [kind |-> "Error", frames |-> <<>>]}
    \cup {[kind |-> "Tag", frames |-> f] : f \in UNION {[1..n -> FrameSamples] : n \in 0..MaxFrames}}

NoTag == [kind |-> "NoHeader", frames |-> <<>>]

-----------------------------------------------------------------------------
(* The functions of id3_parser.py *)

\* get_playlist: None when m3u8.load raises, else the playlist loaded
get_playlist(served) == {NoPlaylist} \cup served

\* the key of min() in get_lowest_bitrate_variant: bandwidth or 999999999
BandwidthKey(p) ==
    IF p.bandwidth = <<>> THEN DefaultBandwidth
    ELSE IF p.bandwidth[1] = 0 THEN DefaultBandwidth
    ELSE p.bandwidth[1]

\* Python's min(): the first element whose key is smallest
PyMin(ps) ==
    LET first == CHOOSE k \in 1..Len(ps) :
                    /\ \A m \in 1..Len(ps) : BandwidthKey(ps[m]) >= BandwidthKey(ps[k])
                    /\ \A m \in 1..(k - 1) : BandwidthKey(ps[m]) > BandwidthKey(ps[k])
    IN  ps[first]

\* get_lowest_bitrate_variant without `if not playlist.playlists: return None`
\* would hand back the URL it was given
get_lowest_bitrate_variant_NoVariantTest(master_url, pl) ==
    IF pl.isNone THEN NoneURL
    ELSE IF Len(pl.segments) > 0 THEN master_url
    ELSE IF Len(pl.playlists) = 0 THEN master_url
    ELSE PyMin(pl.playlists).absolute_uri

\* get_lowest_bitrate_variant with the variants looked at before the segments
get_lowest_bitrate_variant_VariantsFirst(master_url, pl) ==
    IF pl.isNone THEN NoneURL
    ELSE IF Len(pl.playlists) > 0 THEN PyMin(pl.playlists).absolute_uri
    ELSE IF Len(pl.segments) > 0 THEN master_url
    ELSE NoneURL

\* get_lowest_bitrate_variant, given what its call of get_playlist returned
get_lowest_bitrate_variant(master_url, pl) ==
    IF pl.isNone THEN NoneURL
    ELSE IF Len(pl.segments) > 0 THEN master_url
    ELSE IF Len(pl.playlists) = 0 THEN NoneURL
    ELSE PyMin(pl.playlists).absolute_uri

\* re.search in place of re.finditer: the first match only
RECURSIVE FindFirst(_, _)
FindFirst(content, pos) ==
    IF pos + Len(Marker) > Len(content) THEN <<>>
    ELSE IF SubSeq(content, pos + 1, pos + Len(Marker)) = Marker
         THEN <<pos>>
         ELSE FindFirst(content, pos + 1)

\* re.finditer(b"ID3", content): the starts of the matches, left to right,
\* each search resuming at the end of the previous match
RECURSIVE FindIter(_, _)
FindIter(content, pos) ==
    IF pos + Len(Marker) > Len(content) THEN <<>>
    ELSE IF SubSeq(content, pos + 1, pos + Len(Marker)) = Marker
         THEN <<pos>> \o FindIter(content, pos + Len(Marker))
         ELSE FindIter(content, pos + 1)

\* the loop over size_bytes: size = (size << 7) | (b & 0x7F)
RECURSIVE SynchsafeFrom(_, _, _)
SynchsafeFrom(size_bytes, k, size) ==
    IF k > Len(size_bytes) THEN size
    ELSE SynchsafeFrom(size_bytes, k + 1,
                       BitOr(ShiftLeft(size, SizeShift), BitAnd(size_bytes[k], SizeMask)))

\* the loop with `| b` in place of `| (b & 0x7F)`
RECURSIVE SynchsafeNoMaskFrom(_, _, _)
SynchsafeNoMaskFrom(size_bytes, k, size) ==
    IF k > Len(size_bytes) THEN size
    ELSE SynchsafeNoMaskFrom(size_bytes, k + 1,
                             BitOr(ShiftLeft(size, SizeShift), size_bytes[k]))

SynchsafeSize_NoMask(size_bytes) == SynchsafeNoMaskFrom(size_bytes, 1, 0)

SynchsafeSize(size_bytes) == SynchsafeFrom(size_bytes, 1, 0)

\* a scan that never skips a candidate
IsTruncated_Never(size_bytes) == FALSE

\* if len(size_bytes) < 4: continue
IsTruncated(size_bytes) == Len(size_bytes) < 4

\* an end that leaves the ten header bytes out
BlockEnd_NoHeader(start, size) == start + size

\* end = start + 10 + size
BlockEnd(start, size) == start + HeaderLen + size

\* the body of the for loop of extract_id3_blocks_from_response, for the
\* matches from the k-th on; acc holds a record per appended block
RECURSIVE ExtractFrom(_, _, _, _)
ExtractFrom(content, matches, k, acc) ==
    IF k > Len(matches) THEN acc
    ELSE LET start == matches[k]
             size_bytes == PySlice(content, start + 6, start + HeaderLen)
         IN  IF IsTruncated(size_bytes)
             THEN ExtractFrom(content, matches, k + 1, acc)
             ELSE LET size == SynchsafeSize(size_bytes)
                      end == BlockEnd(start, size)
                  IN  ExtractFrom(content, matches, k + 1,
                                  Append(acc, [start |-> start, size |-> size,
                                               block |-> PySlice(content, start, end)]))

ExtractRecords(content) == ExtractFrom(content, FindIter(content, 0), 1, <<>>)

extract_id3_blocks_from_response(content) ==
    LET r == ExtractRecords(content) IN [k \in 1..Len(r) |-> r[k].block]

ExtractedSizes(content) ==
    LET r == ExtractRecords(content) IN [k \in 1..Len(r) |-> r[k].size]

EmptyDict == [k \in {} |-> ""]

DictSet(d, key, value) == [k \in (DOMAIN d) \cup {key} |-> IF k = key THEN value ELSE d[k]]

\* f"PRIV:{owner}"
PrivKey(owner) ==
    IF owner = TimestampOwner THEN TimestampKey ELSE "PRIV:com.example.other"

\* the for loop of decode_id3_with_mutagen over tag.values()
RECURSIVE DecodeFrames(_, _, _)
DecodeFrames(frames, k, d) ==
    IF k > Len(frames) THEN d
    ELSE LET frame == frames[k] IN
         IF frame.FrameID = "PRIV"
         THEN DecodeFrames(frames, k + 1, DictSet(d, PrivKey(frame.owner), "data"))
         ELSE IF frame.hasText
         THEN DecodeFrames(frames, k + 1, DictSet(d, frame.FrameID, "text"))
         ELSE DecodeFrames(frames, k + 1, DictSet(d, frame.FrameID, "str(frame)"))

\* decode_id3_with_mutagen, given what ID3(BytesIO(block)) did
decode_id3_with_mutagen(t) ==
    IF t.kind = "NoHeader" THEN [isNone |-> TRUE, dict |-> EmptyDict]
    ELSE IF t.kind = "Error" THEN [isNone |-> FALSE, dict |-> DictSet(EmptyDict, "error", "str(e)")]
    ELSE [isNone |-> FALSE, dict |-> DecodeFrames(t.frames, 1, EmptyDict)]

NoDecoded == [isNone |-> TRUE, dict |-> EmptyDict]

\* the condition without its `"error" not in decoded`
ShouldReport_NoErrorTest(d) ==
    /\ ~d.isNone
    /\ DOMAIN d.dict # {}
    /\ TimestampKey \notin DOMAIN d.dict

\* the condition of the if in check_id3_in_segment; a dict is true when it
\* has a key
ShouldReport(d) ==
    /\ ~d.isNone
    /\ DOMAIN d.dict # {}
    /\ "error" \notin DOMAIN d.dict
    /\ TimestampKey \notin DOMAIN d.dict

\* a tracker that lets a failed segment through again
IsNewSegment_RetryFailed(seen, seg_url) == seg_url \notin seen \/ seg_url \in failed

\* if seg_url not in seen_segments
IsNewSegment(seen, seg_url) == seg_url \notin seen

\* a tracker that forgets to record the segment
AddSeen_Dropped(seen, seg_url) == seen

\* a tracker that keeps the latest segment only
AddSeen_Replace(seen, seg_url) == {seg_url}

\* seen_segments.add(seg_url)
AddSeen(seen, seg_url) == seen \cup {seg_url}

\* the status of a Python process whose script ran to its end
ExitStatusAtEnd == 0

-----------------------------------------------------------------------------
(* The program *)

Init ==
    /\ pc = "main"
    /\ seen_segments = {}
    /\ selected_hls = NoneURL
    /\ hls_url = NoneURL
    /\ playlist = NoPlaylist
    /\ seg_i = 0
    /\ data = <<>>
    /\ id3_blocks = <<>>
    /\ sizes = <<>>
    /\ block_i = 0
    /\ tag = NoTag
    /\ decoded = NoDecoded
    /\ reports = {}
    /\ exit_status = 0
    /\ stdout_failure = FALSE
    /\ resolve_calls = 0
    /\ polled = {}
    /\ checked = [u \in SegURLs |-> 0]
    /\ failed = {}
    /\ attempts = <<>>

\* a loop that does not advance: the same segment is taken again
NextSegment_Stuck ==
    /\ pc' = "for_seg"
    /\ seg_i' = seg_i
    /\ data' = <<>>
    /\ id3_blocks' = <<>>
    /\ sizes' = <<>>
    /\ block_i' = 0
    /\ tag' = NoTag
    /\ decoded' = NoDecoded
    /\ reports' = {}

\* the for loop of monitor_hls moves to its next segment, or ends and
\* monitor_hls reaches time.sleep
NextSegment ==
    /\ IF seg_i < Len(playlist.segments)
       THEN pc' = "for_seg" /\ seg_i' = seg_i + 1
       ELSE pc' = "sleep" /\ seg_i' = 0
    /\ data' = <<>>
    /\ id3_blocks' = <<>>
    /\ sizes' = <<>>
    /\ block_i' = 0
    /\ tag' = NoTag
    /\ decoded' = NoDecoded
    /\ reports' = {}

\* `if playlist.segments:` alone: None has no attribute segments, and the
\* AttributeError ends monitor_hls
EnterLoop_NoNoneTest(pl) ==
    IF pl.isNone
    THEN pc' = "exit" /\ seg_i' = 0
    ELSE IF Len(pl.segments) > 0
    THEN pc' = "for_seg" /\ seg_i' = 1
    ELSE pc' = "sleep" /\ seg_i' = 0

\* `if playlist and playlist.segments:` the for loop starts at the first
\* segment, else monitor_hls goes straight to time.sleep
EnterLoop(pl) ==
    IF ~pl.isNone /\ Len(pl.segments) > 0
    THEN pc' = "for_seg" /\ seg_i' = 1
    ELSE pc' = "sleep" /\ seg_i' = 0

\* without the except clause the error leaves check_id3_in_segment and
\* monitor_hls with it
SegmentError_Propagates(seg_url) ==
    /\ failed' = failed \cup {seg_url}
    /\ attempts' = Append(attempts, [url |-> seg_url, ok |-> FALSE])
    /\ pc' = "exit"
    /\ UNCHANGED <<seg_i, data, id3_blocks, sizes, block_i, tag, decoded, reports>>

\* `except Exception as e:` of check_id3_in_segment: the error is printed and
\* the call returns to the for loop of monitor_hls
SegmentError(seg_url) ==
    /\ failed' = failed \cup {seg_url}
    /\ attempts' = Append(attempts, [url |-> seg_url, ok |-> FALSE])
    /\ NextSegment

\* __main__: resolve once, then either print the failure and run off the end
\* of the script, or enter monitor_hls
Main ==
    /\ pc = "main"
    /\ \E pl \in get_playlist(MasterManifests) :
         /\ playlist' = pl
         /\ selected_hls' = get_lowest_bitrate_variant(MASTER_HLS_URL, pl)
    /\ resolve_calls' = Inc(resolve_calls)
    /\ IF selected_hls' = NoneURL
       THEN /\ pc' = "exit"
            /\ stdout_failure' = TRUE
            /\ exit_status' = ExitStatusAtEnd
            /\ hls_url' = hls_url
       ELSE /\ pc' = "poll"
            /\ hls_url' = selected_hls'
            /\ UNCHANGED <<stdout_failure, exit_status>>
    /\ UNCHANGED <<seen_segments, seg_i, data, id3_blocks, sizes, block_i, tag,
                   decoded, reports, polled, checked, failed, attempts>>

\* monitor_hls, top of the while loop: get_playlist(hls_url) and the test
\* `playlist and playlist.segments`
Poll ==
    /\ pc = "poll"
    /\ \E pl \in get_playlist(LeafManifests) : playlist' = pl
    /\ polled' = polled \cup {hls_url}
    /\ attempts' = <<>>
    /\ EnterLoop(playlist')
    /\ UNCHANGED <<seen_segments, selected_hls, hls_url, data, id3_blocks, sizes,
                   block_i, tag, decoded, reports, exit_status, stdout_failure,
                   resolve_calls, checked, failed>>

\* one turn of `for seg in playlist.segments`, with the call of
\* check_id3_in_segment up to its for loop over the blocks
ForSegment ==
    /\ pc = "for_seg"
    /\ LET seg_url == playlist.segments[seg_i].absolute_uri IN
       IF ~IsNewSegment(seen_segments, seg_url)
       THEN /\ NextSegment
            /\ UNCHANGED <<seen_segments, checked, failed, attempts>>
       ELSE /\ seen_segments' = AddSeen(seen_segments, seg_url)
            /\ checked' = [checked EXCEPT ![seg_url] = Inc(@)]
            /\ \E response \in Responses :
                 IF ~response.ok
                 THEN SegmentError(seg_url)
                 ELSE /\ failed' = failed
                      /\ attempts' = Append(attempts, [url |-> seg_url, ok |-> TRUE])
                      /\ IF Len(extract_id3_blocks_from_response(response.content)) = 0
                         THEN \* if not id3_blocks: return
                              NextSegment
                         ELSE /\ pc' = "for_block"
                              /\ data' = response.content
                              /\ id3_blocks' = extract_id3_blocks_from_response(response.content)
                              /\ sizes' = ExtractedSizes(response.content)
                              /\ block_i' = 1
                              /\ UNCHANGED <<seg_i, tag, decoded, reports>>
    /\ UNCHANGED <<selected_hls, hls_url, playlist, exit_status, stdout_failure,
                   resolve_calls, polled>>

\* one turn of `for i, block in enumerate(id3_blocks, 1)`
ForBlock ==
    /\ pc = "for_block"
    /\ block_i <= Len(id3_blocks)
    /\ \E t \in MutagenOutcomes :
         /\ tag' = t
         /\ decoded' = decode_id3_with_mutagen(t)
    /\ reports' = IF ShouldReport(decoded') THEN reports \cup {block_i} ELSE reports
    /\ block_i' = block_i + 1
    /\ UNCHANGED <<pc, seen_segments, selected_hls, hls_url, playlist, seg_i, data,
                   id3_blocks, sizes, exit_status, stdout_failure, resolve_calls,
                   polled, checked, failed, attempts>>

\* the for loop over the blocks is exhausted: check_id3_in_segment returns
CheckReturn ==
    /\ pc = "for_block"
    /\ block_i > Len(id3_blocks)
    /\ NextSegment
    /\ UNCHANGED <<seen_segments, selected_hls, hls_url, playlist, exit_status,
                   stdout_failure, resolve_calls, polled, checked, failed, attempts>>

\* time.sleep(5), then the while loop turns
Sleep ==
    /\ pc = "sleep"
    /\ pc' = "poll"
    /\ UNCHANGED <<seen_segments, selected_hls, hls_url, playlist, seg_i, data,
                   id3_blocks, sizes, block_i, tag, decoded, reports, exit_status,
                   stdout_failure, resolve_calls, polled, checked, failed, attempts>>

Next == Main \/ Poll \/ ForSegment \/ ForBlock \/ CheckReturn \/ Sleep

Spec == Init /\ [][Next]_vars

\* the single thread of monitor_hls keeps running: a step that can be taken
\* is taken, every fetch returning or timing out
Fairness ==
    /\ WF_vars(Poll)
    /\ WF_vars(ForSegment)
    /\ WF_vars(ForBlock)
    /\ WF_vars(CheckReturn)
    /\ WF_vars(Sleep)

SpecLive == Init /\ [][Next]_vars /\ Fairness

-----------------------------------------------------------------------------
(* extract_id3_blocks_from_response on its own *)

SizeByteSamples == {0, 1, 127, 128, 255}

\* pieces of a segment body: nothing, filler, the marker and a part of it,
\* headers declaring 0, 2 and 13 bytes and the largest size, a ten-byte
\* header with version bytes no tag has, and a header cut after eight bytes
Chunks ==
    { <<>>, <<71>>, <<1, 2>>, <<0, 0, 0, 0, 0, 0, 0>>,
      Marker, <<73, 68>>,
      Header(<<0, 0, 0, 0>>), Header(<<0, 0, 0, 2>>), Header(<<0, 0, 0, 13>>),
      Header(<<255, 255, 255, 255>>),
      Marker \o <<255, 255, 0, 0, 0, 0, 0>>,
      Marker \o <<4, 0, 0, 0, 0>> }

RECURSIVE Concat(_, _)
Concat(f, k) == IF k > Len(f) THEN <<>> ELSE f[k] \o Concat(f, k + 1)

ExtractPayloads ==
    {pre \o Header(sb) \o post :
        pre \in {<<>>, <<71>>}, sb \in [1..4 -> SizeByteSamples], post \in {<<>>, <<1, 2>>}}
    \cup {Concat(f, 1) : f \in [1..MaxChunks -> Chunks]}

InitExtract ==
    /\ pc = "extract"
    /\ data \in ExtractPayloads
    /\ seen_segments = {}
    /\ selected_hls = NoneURL
    /\ hls_url = NoneURL
    /\ playlist = NoPlaylist
    /\ seg_i = 0
    /\ id3_blocks = <<>>
    /\ sizes = <<>>
    /\ block_i = 0
    /\ tag = NoTag
    /\ decoded = NoDecoded
    /\ reports = {}
    /\ exit_status = 0
    /\ stdout_failure = FALSE
    /\ resolve_calls = 0
    /\ polled = {}
    /\ checked = [u \in SegURLs |-> 0]
    /\ failed = {}
    /\ attempts = <<>>

ExtractCall ==
    /\ pc = "extract"
    /\ pc' = "extracted"
    /\ id3_blocks' = extract_id3_blocks_from_response(data)
    /\ sizes' = ExtractedSizes(data)
    /\ UNCHANGED <<seen_segments, selected_hls, hls_url, playlist, seg_i, data,
                   block_i, tag, decoded, reports, exit_status, stdout_failure,
                   resolve_calls, polled, checked, failed, attempts>>

NextExtract == ExtractCall

SpecExtract == InitExtract /\ [][NextExtract]_vars

TypeOK ==
    /\ pc \in {"main", "exit", "poll", "for_seg", "for_block", "sleep", "extract", "extracted"}
    /\ seen_segments \subseteq SegURLs
    /\ \A u \in SegURLs : checked[u] \in 0..MaxCount

-----------------------------------------------------------------------------
(* Properties of the monitoring loop *)

MonitorPCs == {"poll", "for_seg", "for_block", "sleep"}

SegURLAt(k) == playlist.segments[k].absolute_uri

\* the URLs of the leaf manifest in hand that the for loop has dealt with
ListedAndPassed ==
    IF pc = "for_seg" THEN {SegURLAt(k) : k \in 1..(seg_i - 1)}
    ELSE IF pc = "for_block" THEN {SegURLAt(k) : k \in 1..seg_i}
    ELSE IF pc = "sleep" \/ (pc = "poll" /\ polled # {})
    THEN {SegURLAt(k) : k \in 1..Len(playlist.segments)}
    ELSE {}

AttemptedNow == {attempts[k].url : k \in 1..Len(attempts)}

\* C1: over any run of polls, whatever the manifests list, no segment URL is
\* handed to check_id3_in_segment twice, and every URL the for loop has come
\* past has been handed to it once.
C1_EachSegmentCheckedOnce ==
    \A u \in SegURLs :
        /\ checked[u] <= 1
        /\ u \in ListedAndPassed => checked[u] = 1
        /\ u \in seen_segments <=> checked[u] = 1

\* a poll is over that listed a URL checked in an earlier poll next to a URL
\* that was new in this poll
C1_Witness ==
    /\ pc = "sleep"
    /\ \E u \in ListedAndPassed : u \notin AttemptedNow /\ checked[u] = 1
    /\ \E v \in ListedAndPassed : v \in AttemptedNow /\ checked[v] = 1

\* C2: a segment whose check failed is in seen_segments all the same and is
\* never fetched a second time, also when later polls list it again.
C2_FailedSegmentNotRetried ==
    \A u \in failed : u \in seen_segments /\ checked[u] = 1

\* a later poll listed a segment whose fetch had failed, and went past it
C2_Witness ==
    /\ pc = "sleep"
    /\ \E u \in failed : u \in ListedAndPassed /\ u \notin AttemptedNow /\ checked[u] = 1

\* C3: when the fetch of a new segment fails the for loop goes on with the
\* next segment of the same manifest (or to the sleep after the last one),
\* every new segment the loop comes to is checked, and the sleep is followed
\* by the next poll.
C3_FailureDoesNotStopLoop ==
    /\ [][(pc = "for_seg" /\ Len(attempts') = Len(attempts) + 1
              /\ ~attempts'[Len(attempts')].ok)
            => /\ playlist' = playlist
               /\ IF seg_i < Len(playlist.segments)
                  THEN pc' = "for_seg" /\ seg_i' = seg_i + 1
                  ELSE pc' = "sleep"]_vars
    /\ [][(pc = "for_seg" /\ SegURLAt(seg_i) \notin seen_segments)
            => /\ checked'[SegURLAt(seg_i)] = checked[SegURLAt(seg_i)] + 1
               /\ Len(attempts') = Len(attempts) + 1]_vars
    /\ [][pc = "sleep" => pc' = "poll"]_vars
    /\ [](pc = "sleep" /\ ~playlist.isNone
            => \A k \in 1..Len(playlist.segments) : checked[SegURLAt(k)] = 1)

\* a poll is over in which the first new segment failed and the second new
\* segment was fetched
C3_Witness ==
    /\ pc = "sleep"
    /\ Len(attempts) = 2
    /\ ~attempts[1].ok
    /\ attempts[2].ok

\* C4: when get_playlist returns None in a poll, the loop goes to the sleep
\* with seen_segments untouched and no segment checked, and after the sleep
\* it polls again; every poll is of the one URL monitor_hls was given.
C4_ManifestFailureNotFatal ==
    /\ [][(pc = "poll" /\ playlist'.isNone)
            => /\ pc' = "sleep"
               /\ seen_segments' = seen_segments
               /\ checked' = checked
               /\ attempts' = <<>>
               /\ hls_url' = hls_url]_vars
    /\ [][pc = "sleep" => (pc' = "poll" /\ hls_url' = hls_url)]_vars
    /\ [](polled \subseteq {hls_url})

\* after segments were seen a poll failed, the loop slept and is about to
\* poll again
C4_Witness ==
    /\ pc = "poll"
    /\ playlist.isNone
    /\ polled = {hls_url}
    /\ seen_segments # {}

\* the manifest cannot be resolved: not loaded, or neither segments nor variants
Unresolvable(pl) == pl.isNone \/ (Len(pl.segments) = 0 /\ Len(pl.playlists) = 0)

\* C5: resolution is attempted once; when the manifest cannot be loaded or
\* lists neither segments nor variants the program ends without entering
\* monitor_hls, without a poll and without a segment fetched; monitor_hls only
\* runs with the URL that resolution returned.
C5_NoMonitoringWithoutLeaf ==
    /\ resolve_calls = (IF pc = "main" THEN 0 ELSE 1)
    /\ (pc \in {"exit", "poll"} /\ polled = {})
          => /\ Unresolvable(playlist) <=> pc = "exit"
             /\ Unresolvable(playlist) <=> selected_hls = NoneURL
    /\ pc = "exit"
          => /\ selected_hls = NoneURL
             /\ polled = {}
             /\ seen_segments = {}
             /\ \A u \in SegURLs : checked[u] = 0
    /\ pc \in MonitorPCs => selected_hls # NoneURL /\ hls_url = selected_hls

\* the manifest loaded but lists nothing, and the program has ended
C5_Witness ==
    /\ pc = "exit"
    /\ ~playlist.isNone
    /\ Unresolvable(playlist)
    /\ resolve_calls = 1

\* C6: when resolution fails the process ends with a status other than 0.
C6_Original == pc = "exit" => exit_status # 0

\* the bandwidth of p is not below that of q, an absent bandwidth being above
\* every declared one
NotBelow(p, q) ==
    \/ p.bandwidth = <<>>
    \/ q.bandwidth # <<>> /\ q.bandwidth[1] <= p.bandwidth[1]

\* C7: for a top-level manifest with variants, the URL selected is that of a
\* variant whose declared bandwidth is the minimum, an absent bandwidth
\* counting as above every declared one (0 and values over 999999999 included).
C7_Original ==
    (pc = "poll" /\ polled = {} /\ Len(playlist.segments) = 0)
        => \E k \in 1..Len(playlist.playlists) :
              /\ playlist.playlists[k].absolute_uri = selected_hls
              /\ \A m \in 1..Len(playlist.playlists) :
                    NotBelow(playlist.playlists[m], playlist.playlists[k])

-----------------------------------------------------------------------------
(* Properties of the anomaly policy *)

\* a turn of the loop over the blocks has just ended
BlockDone == pc = "for_block" /\ block_i > 1

HasTimestampFrame(t) ==
    \E k \in 1..Len(t.frames) :
        t.frames[k].FrameID = "PRIV" /\ t.frames[k].owner = TimestampOwner

\* C8: a block is reported exactly when mutagen returned a tag for it (with
\* any frames, also with none) and the tag has no PRIV frame of the timestamp
\* owner.
C8_Original ==
    BlockDone =>
        ((block_i - 1) \in reports <=> (tag.kind = "Tag" /\ ~HasTimestampFrame(tag)))

\* C9: a block for which mutagen raised ID3NoHeaderError (decoded is None) or
\* another exception (decoded carries "error") is not reported.
C9_NoHeaderAndErrorNeverReported ==
    BlockDone
        => /\ tag.kind = "NoHeader" => decoded.isNone
           /\ tag.kind = "Error" => (~decoded.isNone /\ "error" \in DOMAIN decoded.dict)
           /\ tag.kind \in {"NoHeader", "Error"} => (block_i - 1) \notin reports
           /\ reports \subseteq 1..(block_i - 1)

\* the second block of a segment failed to decode after the first was reported
C9_Witness ==
    /\ BlockDone
    /\ block_i = 3
    /\ tag.kind = "Error"
    /\ reports = {1}

-----------------------------------------------------------------------------
(* Properties of extract_id3_blocks_from_response *)

\* the offsets of the payload where the marker stands with a whole header
HeaderStarts(content) ==
    {s \in 0..(Len(content) - HeaderLen) : SubSeq(content, s + 1, s + 3) = Marker}

\* the value the four size bytes at offset s + 6 stand for
SynchsafeValue(content, s) ==
    (content[s + 7] % 128) * 2097152 + (content[s + 8] % 128) * 16384
        + (content[s + 9] % 128) * 128 + (content[s + 10] % 128)

\* C10: the size computed for a block is the number made of the low 7 bits of
\* its four size bytes, most significant first; it lies in 0..2^28-1, and four
\* bytes 0xFF give 0x0FFFFFFF.
C10_SynchsafeDecode ==
    pc = "extracted"
        => /\ Len(sizes) = Cardinality(HeaderStarts(data))
           /\ \A s \in HeaderStarts(data) :
                LET k == 1 + Cardinality({t \in HeaderStarts(data) : t < s}) IN
                /\ sizes[k] = SynchsafeValue(data, s)
                /\ sizes[k] \in 0..268435455
                /\ (\A j \in 7..10 : data[s + j] = 255) => sizes[k] = 268435455

\* the size bytes were all 0xFF
C10_Witness ==
    /\ pc = "extracted"
    /\ \E s \in HeaderStarts(data) : \A j \in 7..10 : data[s + j] = 255
    /\ sizes = <<268435455>>

\* a whole tag stands at offset o: the marker, version bytes other than 0xFF,
\* size bytes below 0x80, and the declared bytes all inside the payload
WellFormedAt(content, o) ==
    /\ o \in HeaderStarts(content)
    /\ content[o + 4] # 255
    /\ content[o + 5] # 255
    /\ \A j \in 7..10 : content[o + j] < 128
    /\ o + HeaderLen + SynchsafeValue(content, o) <= Len(content)

WellFormedBlocks(content) == {o \in HeaderStarts(content) : WellFormedAt(content, o)}

\* payload[o : o + 10 + s] for the tag at offset o
DeclaredBlock(content, o) ==
    SubSeq(content, o + 1, o + HeaderLen + SynchsafeValue(content, o))

\* C11 as stated: a payload that holds exactly one well-formed block, whatever
\* its other bytes are, gives exactly that block.
C11_Original ==
    pc = "extracted"
        => \A o \in WellFormedBlocks(data) :
              WellFormedBlocks(data) = {o} => id3_blocks = <<DeclaredBlock(data, o)>>

\* C11: a payload that holds exactly one well-formed block at offset o, and
\* no other occurrence of the marker with ten bytes from it to the end of the
\* payload, gives exactly one block, payload[o : o + 10 + s].
C11_OneBlockExtracted ==
    pc = "extracted"
        => \A o \in WellFormedBlocks(data) :
              (WellFormedBlocks(data) = {o} /\ HeaderStarts(data) = {o})
                  => id3_blocks = <<DeclaredBlock(data, o)>>

\* the one block declares payload bytes and has other bytes before or after it
C11_Witness ==
    /\ pc = "extracted"
    /\ \E o \in WellFormedBlocks(data) :
          /\ HeaderStarts(data) = {o}
          /\ SynchsafeValue(data, o) > 0
          /\ o > 0 \/ o + HeaderLen + SynchsafeValue(data, o) < Len(data)
          /\ id3_blocks = <<DeclaredBlock(data, o)>>

\* every offset of the payload where the marker stands
MarkerStarts(content) ==
    {s \in 0..(Len(content) - 3) : SubSeq(content, s + 1, s + 3) = Marker}

\* the payload's only marker is its last three bytes
MarkerAtEndOnly(content) == MarkerStarts(content) = {Len(content) - 3}

\* C12 as stated: no block comes out of a payload shorter than 13 bytes, of a
\* payload whose marker is at its very end, or of the empty payload.
C12_Original ==
    pc = "extracted"
        => /\ Len(data) < 13 => id3_blocks = <<>>
           /\ MarkerAtEndOnly(data) => id3_blocks = <<>>
           /\ data = <<>> => id3_blocks = <<>>

\* C12: no block comes out of a payload shorter than 10 bytes, of a payload
\* whose marker is at its very end, or of the empty payload.
C12_TruncationSafety ==
    pc = "extracted"
        => /\ Len(data) < HeaderLen => id3_blocks = <<>>
           /\ MarkerAtEndOnly(data) => id3_blocks = <<>>
           /\ data = <<>> => id3_blocks = <<>>

\* a payload of fewer than ten bytes that ends in the marker was scanned
C12_Witness ==
    /\ pc = "extracted"
    /\ Len(data) < HeaderLen
    /\ Len(data) > 3
    /\ MarkerAtEndOnly(data)
    /\ id3_blocks = <<>>

\* get_lowest_bitrate_variant has returned and monitor_hls has not polled yet
JustResolved == pc = "poll" /\ polled = {}

\* C13: when the manifest at the given URL lists segments, resolution returns
\* that URL itself, also when the manifest lists variants as well.
C13_LeafManifestKeepsURL ==
    (JustResolved /\ Len(playlist.segments) > 0)
        => /\ selected_hls = MASTER_HLS_URL
           /\ hls_url = MASTER_HLS_URL
           /\ \A k \in 1..Len(playlist.playlists) :
                 playlist.playlists[k].absolute_uri # selected_hls

\* the manifest listed a segment and two variants, and the URL was kept
C13_Witness ==
    /\ JustResolved
    /\ Len(playlist.segments) > 0
    /\ Len(playlist.playlists) = 2
    /\ selected_hls = MASTER_HLS_URL

\* the place of offset s among the offsets that have a whole header, counted
\* from the lowest
RankOfStart(content, s) == 1 + Cardinality({t \in HeaderStarts(content) : t < s})

\* C14: the blocks correspond one to one, in ascending order of offset, to the
\* marker occurrences that have ten bytes from their start to the end of the
\* payload; an occurrence nearer to the end gives no block, and a payload
\* without the marker gives none at all.
C14_OneBlockPerOccurrence ==
    pc = "extracted"
        => /\ Len(id3_blocks) = Cardinality(HeaderStarts(data))
           /\ \A s \in HeaderStarts(data) :
                LET block == id3_blocks[RankOfStart(data, s)] IN
                /\ Len(block) >= HeaderLen
                /\ block = SubSeq(data, s + 1, s + Len(block))
           /\ MarkerStarts(data) = {} => id3_blocks = <<>>

\* two occurrences gave a block each and a third, too near the end, gave none
C14_Witness ==
    /\ pc = "extracted"
    /\ Cardinality(HeaderStarts(data)) = 2
    /\ Cardinality(MarkerStarts(data)) = 3
    /\ Len(id3_blocks) = 2

\* the block declared at offset s would end beyond the payload
EndsBeyond(content, s) == s + HeaderLen + SynchsafeValue(content, s) > Len(content)

\* C15: a candidate whose declared end lies beyond the payload is neither
\* dropped nor an error: its block is the payload from its start to the end
\* of the payload.
C15_OverlongBlockCut ==
    pc = "extracted"
        => /\ Len(id3_blocks) = Cardinality(HeaderStarts(data))
           /\ \A s \in HeaderStarts(data) :
                EndsBeyond(data, s)
                    => id3_blocks[RankOfStart(data, s)] = SubSeq(data, s + 1, Len(data))

\* a block that declares more bytes than follow it came out shortened, with a
\* part of its bytes
C15_Witness ==
    /\ pc = "extracted"
    /\ \E s \in HeaderStarts(data) :
          /\ EndsBeyond(data, s)
          /\ s + HeaderLen < Len(data)
          /\ id3_blocks[RankOfStart(data, s)] = SubSeq(data, s + 1, Len(data))

\* C16: seen_segments is empty at the start of the process, no step of the
\* program takes a URL out of it, and a URL enters it only in a turn of the
\* for loop, as the URL of the segment in hand of a leaf manifest that
\* get_playlist loaded.
C16_SeenSetGrows ==
    /\ [](pc = "main" => seen_segments = {})
    /\ [][seen_segments \subseteq seen_segments']_vars
    /\ [][\A u \in seen_segments' \ seen_segments :
              /\ pc = "for_seg"
              /\ polled = {hls_url}
              /\ ~playlist.isNone
              /\ playlist' = playlist
              /\ u = SegURLAt(seg_i)]_vars

\* both URLs are in the set, one of them after a failed fetch, and the latest
\* poll found no manifest
C16_Witness ==
    /\ pc = "sleep"
    /\ playlist.isNone
    /\ seen_segments = SegURLs
    /\ failed # {}

\* C17: a report carries the 1-based place of its block among the extracted
\* blocks; a segment with one extracted block that decodes to a tag without
\* the timestamp owner frame gives exactly the report of block 1, and a
\* segment without extracted blocks gives no report.
C17_Original ==
    /\ BlockDone => reports \subseteq 1..(block_i - 1)
    /\ BlockDone => ((block_i - 1) \in reports <=> ShouldReport(decoded))
    /\ pc # "for_block" => reports = {}
    /\ (BlockDone /\ Len(id3_blocks) = 1 /\ tag.kind = "Tag" /\ ~HasTimestampFrame(tag))
          => reports = {1}

\* C18: once monitor_hls runs it never leaves its loop: from every state of
\* the loop, whatever the manifest and the segments did, the program comes to
\* the sleep, and from the sleep to the next poll.
C18_LoopNeverEnds ==
    /\ [][(pc \in MonitorPCs) => (pc' \in MonitorPCs)]_vars
    /\ (pc \in MonitorPCs) ~> (pc = "sleep")
    /\ (pc = "sleep") ~> (pc = "poll")

\* after a failed fetch and then a failed poll the loop is at its next poll
C18_Witness ==
    /\ pc = "poll"
    /\ polled = {hls_url}
    /\ playlist.isNone
    /\ failed # {}

\* C19: every block returned is a run of bytes of the payload that starts at
\* an occurrence of the marker, so it begins with the marker; it has at least
\* the ten header bytes and at most ten bytes more than the size its header
\* declares.
C19_BlockShape ==
    pc = "extracted"
        => /\ Len(sizes) = Len(id3_blocks)
           /\ \A k \in 1..Len(id3_blocks) :
                LET block == id3_blocks[k] IN
                /\ Len(block) >= HeaderLen
                /\ Len(block) <= HeaderLen + sizes[k]
                /\ SubSeq(block, 1, 3) = Marker
                /\ \E s \in MarkerStarts(data) :
                      /\ s + Len(block) <= Len(data)
                      /\ block = SubSeq(data, s + 1, s + Len(block))
                      /\ sizes[k] = SynchsafeValue(data, s)

\* of two blocks one has all the bytes it declares and the other has a part
\* of them
C19_Witness ==
    /\ pc = "extracted"
    /\ Len(id3_blocks) = 2
    /\ \E k \in 1..2 : Len(id3_blocks[k]) = HeaderLen + sizes[k] /\ sizes[k] > 0
    /\ \E k \in 1..2 : /\ Len(id3_blocks[k]) > HeaderLen
                       /\ Len(id3_blocks[k]) < HeaderLen + sizes[k]

====
